---- MODULE Spec2Model ----
(***************************************************************************)
(* Model of the waveform-draw core: the run-length codec of signal states, *)
(* the text parser, the document factory and the document mutation         *)
(* helpers.  Strings are sequences of one-character strings, so that the   *)
(* regular expressions of the parser are computed character by character.  *)
(* Optional object properties are record fields that may be absent.        *)
(***************************************************************************)
EXTENDS Integers, Sequences, FiniteSets, TLC

VARIABLES
    text,         \* the text handed to parse
    doc,          \* the current WaveformDocument
    report,       \* the ValidationResult returned by validate
    called,       \* names of the API functions that have returned
    raised,       \* "none", or the name of the exception a call raised
    counter,      \* module-level id counter of utils/id.ts
    clock,        \* value of Date.now()
    ops,          \* number of mutation-helper calls made so far
    stateString,  \* argument of parseSignalStates
    states,       \* run list returned by parseSignalStates
    serialized,   \* string returned by serializeSignalStates
    output,       \* text returned by serialize(doc)
    reparsed,     \* document returned by parse(output)
    reoutput,     \* text returned by serialize(reparsed)
    heap,         \* the objects allocated so far, by reference
    docRef,       \* reference of the current document object, NoRef if none
    json,         \* value of the JSON text returned by serializeToJSON(doc)
    restored,     \* document returned by deserializeFromJSON(json)
    textEditor,   \* WaveformApp: the value of the text editor
    appSignals,   \* WaveformApp: this.signals
    lastHit,      \* WaveformApp: what hitTest returned for the last click
    clicks        \* WaveformApp: number of canvas clicks so far

\* what the text round trip produces
textVars == <<output, reparsed, reoutput>>

\* the documents as objects: what the mutation helpers allocate and share
heapVars == <<heap, docRef>>

\* what the JSON round trip produces
jsonVars == <<json, restored>>

\* the state of the single-page app
appVars == <<textEditor, appSignals, lastHit, clicks>>

vars == <<text, doc, report, called, raised, counter, clock, ops,
          stateString, states, serialized, textVars, heapVars,
          jsonVars, appVars>>

----------------------------------------------------------------------------
(* Bounds *)

MaxLen == 4

MaxLines == 3

MaxOps == 3

MaxClock == 2

\* helper calls made on one document in the object-level specification
MaxHeapOps == 2

\* clicks on the canvas in one run of the app
MaxClicks == 4

\* lines of a text typed into the editor of the app
MaxAppLines == 2

----------------------------------------------------------------------------
(* Character classes of the regular expressions *)

Digits == {"0", "1", "2", "3", "4", "5", "6", "7", "8", "9"}

Letters ==
    {"a", "b", "c", "d", "e", "f", "g", "h", "i", "j", "k", "l", "m",
     "n", "o", "p", "q", "r", "s", "t", "u", "v", "w", "x", "y", "z",
     "A", "B", "C", "D", "E", "F", "G", "H", "I", "J", "K", "L", "M",
     "N", "O", "P", "Q", "R", "S", "T", "U", "V", "W", "X", "Y", "Z"}

WordChars == Letters \cup Digits \cup {"_"}

WhiteSpace == {" ", "\t", "\r", "\n"}

StateChars == {"0", "1", "X", "Z"}

LineTerminators == {"\n", "\r"}

\* First index j >= i with s[j] \notin set, Len(s) + 1 if there is none:
\* the end of a greedy character-class repetition that starts at i.
RECURSIVE SkipWhile(_, _, _)
SkipWhile(s, i, set) ==
    IF i <= Len(s) /\ s[i] \in set THEN SkipWhile(s, i + 1, set) ELSE i

\* String.prototype.trim
Trim(s) ==
    LET first == SkipWhile(s, 1, WhiteSpace)
        lasts == {j \in first..Len(s) : s[j] \notin WhiteSpace}
    IN  IF first > Len(s) THEN <<>>
        ELSE SubSeq(s, first, CHOOSE j \in lasts : \A k \in lasts : k <= j)

\* String.prototype.startsWith for a one-character prefix
StartsWith(s, c) == Len(s) >= 1 /\ s[1] = c

\* String.prototype.split('\n'): the pieces between consecutive newlines
Split(s) ==
    LET nl == {i \in 1..Len(s) : s[i] = "\n"}
        nth(k) == IF k = 0 THEN 0
                  ELSE IF k > Cardinality(nl) THEN Len(s) + 1
                  ELSE CHOOSE i \in nl : Cardinality({j \in nl : j <= i}) = k
    IN  [k \in 1..(Cardinality(nl) + 1) |->
            SubSeq(s, nth(k - 1) + 1, nth(k) - 1)]

\* A JavaScript value is truthy unless it is absent or the empty string.
Truthy(r, k) == k \in DOMAIN r /\ r[k] # <<>>

----------------------------------------------------------------------------
(* Run-length codec: domain/WaveformDocument.ts *)

\* stateString[i] of JavaScript, 1-based here: undefined out of range
CharAt(s, i) == IF i \in 1..Len(s) THEN s[i] ELSE "undefined"

RECURSIVE ParseSignalStatesLoop(_, _, _, _, _)
ParseSignalStatesLoop(s, i, currentValue, duration, acc) ==
    IF i > Len(s)
    THEN Append(acc, [value |-> currentValue, duration |-> duration])
    ELSE IF s[i] = currentValue
    THEN ParseSignalStatesLoop(s, i + 1, currentValue, duration + 1, acc)
    ELSE ParseSignalStatesLoop(s, i + 1, s[i], 1,
             Append(acc, [value |-> currentValue, duration |-> duration]))

\* Mutant: a run is flushed at every character, never accumulated.
ParseSignalStatesNoMerge(s) ==
    [i \in 1..Len(s) |-> [value |-> s[i], duration |-> 1]]

\* Mutant: the run in progress starts with a duration of 0.
ParseSignalStatesFromZero(s) == ParseSignalStatesLoop(s, 2, CharAt(s, 1), 0, <<>>)

ParseSignalStates(s) == ParseSignalStatesLoop(s, 2, CharAt(s, 1), 1, <<>>)

\* String.prototype.repeat
RECURSIVE Repeat(_, _)
Repeat(c, n) == IF n <= 0 THEN <<>> ELSE <<c>> \o Repeat(c, n - 1)

\* state.value.repeat(...) raises a TypeError when value is undefined
SerializeRaises(runs) == \E i \in 1..Len(runs) : runs[i].value = "undefined"

RECURSIVE SerializeSignalStates(_)
SerializeSignalStates(runs) ==
    IF runs = <<>> THEN <<>>
    ELSE Repeat(Head(runs).value, Head(runs).duration)
             \o SerializeSignalStates(Tail(runs))

\* sum of the run durations: states.reduce((sum, state) => sum + state.duration, 0)
RECURSIVE SumDurations(_)
SumDurations(runs) ==
    IF runs = <<>> THEN 0 ELSE Head(runs).duration + SumDurations(Tail(runs))

----------------------------------------------------------------------------
(* Ids and factories *)

\* `${Date.now()}-${++counter}`
GenerateId(now, cnt) == <<now, cnt + 1>>

UntitledWaveform ==
    <<"U", "n", "t", "i", "t", "l", "e", "d", " ",
      "W", "a", "v", "e", "f", "o", "r", "m">>

DefaultTotalSteps == 8

DefaultStepWidth == 40

CreateDocument(now, cnt) ==
    [id |-> GenerateId(now, cnt),
     version |-> "1.0.0",
     metadata |-> [title |-> UntitledWaveform, created |-> now, modified |-> now],
     signals |-> <<>>,
     timeConfig |-> [totalSteps |-> DefaultTotalSteps,
                     stepWidth |-> DefaultStepWidth,
                     showGrid |-> TRUE]]

\* createSignal(name, states): the run list stays empty for a falsy string
CreateSignal(name, str, now, cnt) ==
    [id |-> GenerateId(now, cnt),
     name |-> name,
     states |-> IF str # <<>> THEN ParseSignalStates(str) ELSE <<>>]

----------------------------------------------------------------------------
(* Regular expressions of services/Parser.ts *)

NoMatch == [matched |-> FALSE]

\* r with property k set to v
SetField(r, k, v) == (k :> v) @@ r

\* greatest element of a non-empty set of integers
MaxOfSet(S) == CHOOSE m \in S : \A x \in S : x <= m

\* /^@(\w+):\s*(.+)$/ : the greedy \s* takes the longest white-space prefix
\* that still leaves a non-empty rest for (.+), and '.' matches no line
\* terminator.
MatchDirective(line) ==
    LET n == Len(line)
        e == SkipWhile(line, 2, WordChars)
        starts == {k \in (e + 1)..n :
                      /\ \A j \in (e + 1)..(k - 1) : line[j] \in WhiteSpace
                      /\ \A j \in k..n : line[j] \notin LineTerminators}
    IN  IF StartsWith(line, "@") /\ e > 2 /\ e <= n /\ line[e] = ":"
           /\ starts # {}
        THEN [matched |-> TRUE,
              directive |-> SubSeq(line, 2, e - 1),
              value |-> SubSeq(line, MaxOfSet(starts), n)]
        ELSE NoMatch

\* /^(\d+)\s+"([^"]+)"$/
MatchMarker(value) ==
    LET n == Len(value)
        d == SkipWhile(value, 1, Digits)
        w == SkipWhile(value, d, WhiteSpace)
    IN  IF d > 1 /\ w > d /\ w + 2 <= n /\ value[w] = "\"" /\ value[n] = "\""
           /\ \A j \in (w + 1)..(n - 1) : value[j] # "\""
        THEN [matched |-> TRUE,
              pos |-> SubSeq(value, 1, d - 1),
              label |-> SubSeq(value, w + 1, n - 1)]
        ELSE NoMatch

\* /^([A-Za-z_][\w]*)\s*:\s*([01XZ]+)(?:\s+"([^"]+)")?$/ : the description
\* group is absent from the match when the optional part did not take part.
MatchSignal(line) ==
    LET n == Len(line)
        e == SkipWhile(line, 2, WordChars)
        a == SkipWhile(line, e, WhiteSpace)
        b == SkipWhile(line, a + 1, WhiteSpace)
        c == SkipWhile(line, b, StateChars)
        d == SkipWhile(line, c, WhiteSpace)
        head == /\ n >= 1 /\ line[1] \in Letters \cup {"_"}
                /\ a <= n /\ line[a] = ":"
                /\ c > b
        quoted == /\ d > c /\ d + 2 <= n
                  /\ line[d] = "\"" /\ line[n] = "\""
                  /\ \A j \in (d + 1)..(n - 1) : line[j] # "\""
        base == [matched |-> TRUE,
                 name |-> SubSeq(line, 1, e - 1),
                 states |-> SubSeq(line, b, c - 1)]
    IN  IF head /\ c = n + 1 THEN base
        ELSE IF head /\ quoted
        THEN SetField(base, "description", SubSeq(line, d + 1, n - 1))
        ELSE NoMatch

DigitSeq == <<"0", "1", "2", "3", "4", "5", "6", "7", "8", "9">>

\* parseInt(pos, 10) of a string of decimal digits.  The Number is kept as
\* its decimal digits without leading zeros, so that positions beyond the
\* machine integers stay representable; this is exact below 2^53 and for
\* a digit followed by zeros.
ParseInt(s) ==
    LET z == SkipWhile(s, 1, {"0"})
    IN  IF z > Len(s) THEN <<"0">> ELSE SubSeq(s, z, Len(s))

\* decimal digits of a small natural number
RECURSIVE IntToString(_)
IntToString(k) ==
    IF k < 10 THEN <<DigitSeq[k + 1]>>
    ELSE IntToString(k \div 10) \o <<DigitSeq[(k % 10) + 1]>>

\* Numbers of more than this many digits are written in exponent notation
MaxPlainDigits == 21

\* `${marker.position}`: Number.prototype.toString of a non-negative
\* integer.  Below 10^21 it is the decimal digits; from 10^21 on it is the
\* exponent notation d[.ddd]e+NN.
NumberToString(n) ==
    LET nonzero == {i \in 1..Len(n) : n[i] # "0"}
        sig == SubSeq(n, 1, MaxOfSet(nonzero))
    IN  IF Len(n) <= MaxPlainDigits THEN n
        ELSE <<n[1]>>
                 \o (IF Len(sig) > 1 THEN <<".">> \o SubSeq(sig, 2, Len(sig)) ELSE <<>>)
                 \o <<"e", "+">> \o IntToString(Len(n) - 1)

TitleName == <<"t", "i", "t", "l", "e">>

UnitName == <<"u", "n", "i", "t">>

MarkerName == <<"m", "a", "r", "k", "e", "r">>

----------------------------------------------------------------------------
(* WaveformParser.parse *)

\* Mutant: a marker whose position is already taken is not pushed.
MarkerStepUnique(acc, value) ==
    LET m == MatchMarker(value)
    IN  IF m.matched
           /\ \A k \in 1..Len(acc.markers) :
                  acc.markers[k].position # ParseInt(m.pos)
        THEN [acc EXCEPT !.markers =
                 Append(@, [position |-> ParseInt(m.pos), label |-> m.label])]
        ELSE acc

\* Parser.ts 36-46: case 'marker'
MarkerStep(acc, value) ==
    LET m == MatchMarker(value)
    IN  IF m.matched
        THEN [acc EXCEPT !.markers =
                 Append(@, [position |-> ParseInt(m.pos), label |-> m.label])]
        ELSE acc

\* Mutant: the first title and the first unit win.
DirectiveStepFirstWins(acc, line) ==
    LET m == MatchDirective(line)
    IN  IF ~m.matched THEN acc
        ELSE IF m.directive = TitleName
        THEN IF acc.currentTitle = UntitledWaveform
             THEN [acc EXCEPT !.currentTitle = m.value]
             ELSE acc
        ELSE IF m.directive = UnitName
        THEN IF "currentUnit" \in DOMAIN acc THEN acc
             ELSE SetField(acc, "currentUnit", m.value)
        ELSE IF m.directive = MarkerName
        THEN MarkerStep(acc, m.value)
        ELSE acc

\* Parser.ts 25-49: a line that starts with '@'
DirectiveStep(acc, line) ==
    LET m == MatchDirective(line)
    IN  IF ~m.matched THEN acc
        ELSE IF m.directive = TitleName
        THEN [acc EXCEPT !.currentTitle = m.value]
        ELSE IF m.directive = UnitName
        THEN SetField(acc, "currentUnit", m.value)
        ELSE IF m.directive = MarkerName
        THEN MarkerStep(acc, m.value)
        ELSE acc

\* Mutant: a signal whose name is already in the document is not pushed.
PushSignalUnique(acc, m, now) ==
    IF ~m.matched THEN [acc EXCEPT !.thrown = TRUE]
    ELSE IF \E k \in 1..Len(acc.signals) : acc.signals[k].name = m.name
    THEN acc
    ELSE LET signal == CreateSignal(m.name, m.states, now, acc.counter)
             described == IF Truthy(m, "description")
                          THEN SetField(signal, "description", m.description)
                          ELSE signal
         IN  [acc EXCEPT !.signals = Append(@, described),
                         !.counter = @ + 1]

\* Parser.ts 55-60: destructuring the match (a TypeError when it is null),
\* createSignal, the description, the push onto doc.signals
PushSignal(acc, m, now) ==
    IF ~m.matched THEN [acc EXCEPT !.thrown = TRUE]
    ELSE LET signal == CreateSignal(m.name, m.states, now, acc.counter)
             described == IF Truthy(m, "description")
                          THEN SetField(signal, "description", m.description)
                          ELSE signal
         IN  [acc EXCEPT !.signals = Append(@, described),
                         !.counter = @ + 1]

\* Mutant: the null check on signalMatch is missing.
SignalStepUnguarded(acc, line, now) == PushSignal(acc, MatchSignal(line), now)

\* Parser.ts 53-61: a line that is neither blank, comment nor directive
SignalStep(acc, line, now) ==
    LET m == MatchSignal(line)
    IN  IF m.matched THEN PushSignal(acc, m, now) ELSE acc

\* Parser.ts 20-61: the body of the loop over the lines
ParseLine(acc, rawLine, now) ==
    LET line == Trim(rawLine)
    IN  IF line = <<>> \/ StartsWith(line, "#") THEN acc
        ELSE IF StartsWith(line, "@") THEN DirectiveStep(acc, line)
        ELSE SignalStep(acc, line, now)

\* Parser.ts 19: the loop; an exception ends it
RECURSIVE ParseLines(_, _, _, _)
ParseLines(lines, i, acc, now) ==
    IF i > Len(lines) \/ acc.thrown THEN acc
    ELSE ParseLines(lines, i + 1, ParseLine(acc, lines[i], now), now)

\* Math.max(...lengths) of a non-empty array
RECURSIVE MathMax(_)
MathMax(s) ==
    IF Len(s) = 1 THEN s[1]
    ELSE LET m == MathMax(Tail(s)) IN IF s[1] >= m THEN s[1] ELSE m

SignalLengths(signals) ==
    [i \in 1..Len(signals) |-> SumDurations(signals[i].states)]

\* parse(text) at time now with the id counter at cnt: the document, the
\* counter afterwards, and whether an exception escaped
Parse(t, now, cnt) ==
    LET doc0 == CreateDocument(now, cnt)
        acc0 == [currentTitle |-> UntitledWaveform,
                 markers |-> <<>>,
                 signals |-> <<>>,
                 counter |-> cnt + 1,
                 thrown |-> FALSE]
        acc == ParseLines(Split(t), 1, acc0, now)
        tc1 == IF Truthy(acc, "currentUnit")
               THEN SetField(doc0.timeConfig, "unit", acc.currentUnit)
               ELSE doc0.timeConfig
        tc2 == IF Len(acc.markers) > 0
               THEN SetField(tc1, "markers", acc.markers)
               ELSE tc1
        tc3 == IF Len(acc.signals) > 0
               THEN SetField(tc2, "totalSteps", MathMax(SignalLengths(acc.signals)))
               ELSE tc2
    IN  [thrown |-> acc.thrown,
         counter |-> acc.counter,
         doc |-> [doc0 EXCEPT !.metadata.title = acc.currentTitle,
                              !.signals = acc.signals,
                              !.timeConfig = tc3]]

\* calculateTotalSteps(doc)
CalculateTotalSteps(d) ==
    IF Len(d.signals) = 0 THEN 0 ELSE MathMax(SignalLengths(d.signals))

----------------------------------------------------------------------------
(* WaveformParser.validate *)

\* /^([A-Za-z_][\w]*)\s*:\s*([01XZ]+)/ : the unanchored expression of the
\* length-consistency pass
MatchSignalPrefix(line) ==
    LET n == Len(line)
        e == SkipWhile(line, 2, WordChars)
        a == SkipWhile(line, e, WhiteSpace)
        b == SkipWhile(line, a + 1, WhiteSpace)
        c == SkipWhile(line, b, StateChars)
    IN  IF /\ n >= 1 /\ line[1] \in Letters \cup {"_"}
           /\ a <= n /\ line[a] = ":"
           /\ c > b
        THEN [matched |-> TRUE,
              name |-> SubSeq(line, 1, e - 1),
              states |-> SubSeq(line, b, c - 1)]
        ELSE NoMatch

LongNameLimit == 32

\* Mutant: a directive of the wrong shape is skipped without an error.
ValidateLineSilentDirective(rep, rawLine, lineNumber) ==
    LET line == Trim(rawLine)
        m == MatchSignal(line)
    IN  IF line = <<>> \/ StartsWith(line, "#") \/ StartsWith(line, "@") THEN rep
        ELSE IF ~m.matched
        THEN [rep EXCEPT !.errors =
                 Append(@, [line |-> lineNumber, code |-> "INVALID_SIGNAL"])]
        ELSE rep

\* Parser.ts 110-158: the body of the first loop of validate
ValidateLine(rep, rawLine, lineNumber) ==
    LET line == Trim(rawLine)
        m == MatchSignal(line)
        stateError == IF m.states = <<>> \/ \E j \in 1..Len(m.states) : m.states[j] \notin StateChars
                      THEN <<[line |-> lineNumber, code |-> "INVALID_STATE"]>>
                      ELSE <<>>
        nameWarning == IF Len(m.name) > LongNameLimit
                       THEN <<[line |-> lineNumber, code |-> "LONG_NAME"]>>
                       ELSE <<>>
    IN  IF line = <<>> \/ StartsWith(line, "#") THEN rep
        ELSE IF StartsWith(line, "@")
        THEN IF MatchDirective(line).matched THEN rep
             ELSE [rep EXCEPT !.errors =
                      Append(@, [line |-> lineNumber, code |-> "INVALID_DIRECTIVE"])]
        ELSE IF ~m.matched
        THEN [rep EXCEPT !.errors =
                 Append(@, [line |-> lineNumber, code |-> "INVALID_SIGNAL"])]
        ELSE [rep EXCEPT !.errors = @ \o stateError,
                         !.warnings = @ \o nameWarning]

RECURSIVE ValidateLines(_, _, _)
ValidateLines(lines, i, rep) ==
    IF i > Len(lines) THEN rep
    ELSE ValidateLines(lines, i + 1, ValidateLine(rep, lines[i], i))

\* Parser.ts 162-172: the Map from signal name to state count, as the
\* sequence of its entries in insertion order
RECURSIVE SignalLengthMap(_, _, _)
SignalLengthMap(lines, i, entries) ==
    IF i > Len(lines) THEN entries
    ELSE LET line == Trim(lines[i])
             m == MatchSignalPrefix(line)
             known == {k \in 1..Len(entries) : entries[k].name = m.name}
         IN  IF line = <<>> \/ StartsWith(line, "#") \/ StartsWith(line, "@")
                \/ ~m.matched
             THEN SignalLengthMap(lines, i + 1, entries)
             ELSE IF known # {}
             THEN SignalLengthMap(lines, i + 1,
                      [k \in 1..Len(entries) |->
                          IF k \in known
                          THEN [name |-> m.name, length |-> Len(m.states)]
                          ELSE entries[k]])
             ELSE SignalLengthMap(lines, i + 1,
                      Append(entries, [name |-> m.name, length |-> Len(m.states)]))

\* Math.min(...lengths) of a non-empty array
RECURSIVE MathMin(_)
MathMin(s) ==
    IF Len(s) = 1 THEN s[1]
    ELSE LET m == MathMin(Tail(s)) IN IF s[1] <= m THEN s[1] ELSE m

\* Mutant: a text with warnings is not valid.
ValidateStrict(t) ==
    LET lines == Split(t)
        rep == ValidateLines(lines, 1, [errors |-> <<>>, warnings |-> <<>>])
        entries == SignalLengthMap(lines, 1, <<>>)
        lengths == [k \in 1..Len(entries) |-> entries[k].length]
        lengthWarning ==
            IF Len(entries) > 0 /\ MathMin(lengths) # MathMax(lengths)
            THEN <<[line |-> 0, code |-> "INCONSISTENT_LENGTHS",
                    min |-> MathMin(lengths), max |-> MathMax(lengths)]>>
            ELSE <<>>
    IN  [valid |-> Len(rep.errors) = 0 /\ Len(rep.warnings \o lengthWarning) = 0,
         errors |-> rep.errors,
         warnings |-> rep.warnings \o lengthWarning]

\* validate(text)
Validate(t) ==
    LET lines == Split(t)
        rep == ValidateLines(lines, 1, [errors |-> <<>>, warnings |-> <<>>])
        entries == SignalLengthMap(lines, 1, <<>>)
        lengths == [k \in 1..Len(entries) |-> entries[k].length]
        lengthWarning ==
            IF Len(entries) > 0 /\ MathMin(lengths) # MathMax(lengths)
            THEN <<[line |-> 0, code |-> "INCONSISTENT_LENGTHS",
                    min |-> MathMin(lengths), max |-> MathMax(lengths)]>>
            ELSE <<>>
    IN  [valid |-> Len(rep.errors) = 0,
         errors |-> rep.errors,
         warnings |-> rep.warnings \o lengthWarning]

----------------------------------------------------------------------------
(* Document mutation helpers: domain/WaveformDocument.ts *)

\* { ...s, ...updates }
Merge(s, updates) == updates @@ s

AddSignal(d, signal, now) ==
    [d EXCEPT !.signals = Append(@, signal),
              !.metadata.modified = now]

UpdateSignal(d, signalId, updates, now) ==
    [d EXCEPT !.signals = [i \in 1..Len(d.signals) |->
                              IF d.signals[i].id = signalId
                              THEN Merge(d.signals[i], updates)
                              ELSE d.signals[i]],
              !.metadata.modified = now]

RemoveSignal(d, signalId, now) ==
    [d EXCEPT !.signals = SelectSeq(@, LAMBDA s : s.id # signalId),
              !.metadata.modified = now]

\* updateMetadata: { ...doc.metadata, ...updates, modified: new Date() }
UpdateMetadata(d, updates, now) ==
    [d EXCEPT !.metadata = SetField(Merge(d.metadata, updates), "modified", now)]

\* updateTimeConfig: { ...doc.timeConfig, ...updates }
UpdateTimeConfig(d, updates, now) ==
    [d EXCEPT !.timeConfig = Merge(d.timeConfig, updates),
              !.metadata.modified = now]

----------------------------------------------------------------------------
(* The helpers of domain/WaveformDocument.ts on objects.  The heap is the
   sequence of the objects allocated so far and a reference is an index
   into it.  A document object holds references to its signal array, its
   metadata and its timeConfig; an array holds references to its signals.
   An object literal or array literal allocates; a spread copies the
   properties of its operand, references included. *)

NoRef == 0

\* hitTest returns null
NoHit == [signalIndex |-> -1, stepIndex |-> -1]

Object(fields) == [kind |-> "object", fields |-> fields]

Array(items) == [kind |-> "array", items |-> items]

\* the objects createDocument or parse allocate for the document d; the
\* document object is the last one
StoreDocument(h, d) ==
    LET n == Len(h)
        k == Len(d.signals)
    IN  h \o [i \in 1..k |-> Object(d.signals[i])]
          \o <<Array([i \in 1..k |-> n + i]),
               Object(d.metadata),
               Object(d.timeConfig),
               Object([d EXCEPT !.signals = n + k + 1,
                                !.metadata = n + k + 2,
                                !.timeConfig = n + k + 3])>>

\* the document read through the reference r
Load(h, r) ==
    LET f == h[r].fields
        items == h[f.signals].items
    IN  [f EXCEPT !.signals = [i \in 1..Len(items) |-> h[items[i]].fields],
                  !.metadata = h[f.metadata].fields,
                  !.timeConfig = h[f.timeConfig].fields]

\* metadata: { ...doc.metadata, modified: new Date() }
TouchedMetadata(h, d, now) ==
    Object(SetField(h[h[d].fields.metadata].fields, "modified", now))

\* Mutant: the signal is pushed onto the array of the document passed in
\* and its metadata object is written, before the document is copied.
HeapAddSignalInPlace(h, d, s, now) ==
    Append([h EXCEPT ![h[d].fields.signals].items = Append(@, s),
                     ![h[d].fields.metadata].fields = SetField(@, "modified", now)],
           Object(h[d].fields))

\* addSignal(doc, signal) with doc at d and signal at s
HeapAddSignal(h, d, s, now) ==
    LET n == Len(h)
    IN  h \o <<Array(Append(h[h[d].fields.signals].items, s)),
               TouchedMetadata(h, d, now),
               Object([h[d].fields EXCEPT !.signals = n + 1, !.metadata = n + 2])>>

\* updateSignal(doc, signalId, updates): map allocates a copy for every
\* signal of that id and keeps the reference of the others
HeapUpdateSignal(h, d, signalId, updates, now) ==
    LET n == Len(h)
        items == h[h[d].fields.signals].items
        hit == {i \in 1..Len(items) : h[items[i]].fields.id = signalId}
        hits == SelectSeq([i \in 1..Len(items) |-> i], LAMBDA i : i \in hit)
        copies == [k \in 1..Len(hits) |->
                      Object(Merge(h[items[hits[k]]].fields, updates))]
        m == n + Len(copies)
    IN  h \o copies
          \o <<Array([i \in 1..Len(items) |->
                         IF i \in hit
                         THEN n + Cardinality({j \in hit : j <= i})
                         ELSE items[i]]),
               TouchedMetadata(h, d, now),
               Object([h[d].fields EXCEPT !.signals = m + 1, !.metadata = m + 2])>>

\* removeSignal(doc, signalId)
HeapRemoveSignal(h, d, signalId, now) ==
    LET n == Len(h)
    IN  h \o <<Array(SelectSeq(h[h[d].fields.signals].items,
                               LAMBDA r : h[r].fields.id # signalId)),
               TouchedMetadata(h, d, now),
               Object([h[d].fields EXCEPT !.signals = n + 1, !.metadata = n + 2])>>

\* updateMetadata(doc, updates)
HeapUpdateMetadata(h, d, updates, now) ==
    LET n == Len(h)
    IN  h \o <<Object(SetField(Merge(h[h[d].fields.metadata].fields, updates),
                               "modified", now)),
               Object([h[d].fields EXCEPT !.metadata = n + 1])>>

\* updateTimeConfig(doc, updates)
HeapUpdateTimeConfig(h, d, updates, now) ==
    LET n == Len(h)
    IN  h \o <<Object(Merge(h[h[d].fields.timeConfig].fields, updates)),
               TouchedMetadata(h, d, now),
               Object([h[d].fields EXCEPT !.timeConfig = n + 1, !.metadata = n + 2])>>

----------------------------------------------------------------------------
(* WaveformSerializer *)

\* lines.join('\n')
RECURSIVE JoinLines(_)
JoinLines(ls) ==
    IF ls = <<>> THEN <<>>
    ELSE IF Len(ls) = 1 THEN ls[1]
    ELSE ls[1] \o <<"\n">> \o JoinLines(Tail(ls))

\* serializeSignal(signal)
SerializeSignal(signal) ==
    signal.name \o <<":", " ">> \o SerializeSignalStates(signal.states)
        \o (IF Truthy(signal, "description")
            THEN <<" ", "\"">> \o signal.description \o <<"\"">>
            ELSE <<>>)

\* `@marker: ${marker.position} "${marker.label}"`
SerializeMarker(marker) ==
    <<"@", "m", "a", "r", "k", "e", "r", ":", " ">> \o NumberToString(marker.position)
        \o <<" ", "\"">> \o marker.label \o <<"\"">>

\* Mutant: only the title is written, and the blank line is pushed whether
\* or not a line precedes it.
SerializeLinesAlwaysBlank(d) ==
    LET titleLines ==
            IF Truthy(d.metadata, "title") /\ d.metadata.title # UntitledWaveform
            THEN <<<<"@", "t", "i", "t", "l", "e", ":", " ">> \o d.metadata.title>>
            ELSE <<>>
    IN  titleLines \o <<<<>>>>
            \o [i \in 1..Len(d.signals) |-> SerializeSignal(d.signals[i])]

\* serialize(doc), the array of lines before the join
SerializeLines(d) ==
    LET titleLines ==
            IF Truthy(d.metadata, "title") /\ d.metadata.title # UntitledWaveform
            THEN <<<<"@", "t", "i", "t", "l", "e", ":", " ">> \o d.metadata.title>>
            ELSE <<>>
        descriptionLines ==
            IF Truthy(d.metadata, "description")
            THEN <<<<"@", "d", "e", "s", "c", "r", "i", "p", "t", "i", "o", "n", ":", " ">> \o d.metadata.description>>
            ELSE <<>>
        unitLines ==
            IF Truthy(d.timeConfig, "unit")
            THEN <<<<"@", "u", "n", "i", "t", ":", " ">> \o d.timeConfig.unit>>
            ELSE <<>>
        markerLines ==
            IF "markers" \in DOMAIN d.timeConfig /\ Len(d.timeConfig.markers) > 0
            THEN [i \in 1..Len(d.timeConfig.markers) |->
                     SerializeMarker(d.timeConfig.markers[i])]
            ELSE <<>>
        lines == titleLines \o descriptionLines \o unitLines \o markerLines
        blank == IF Len(lines) > 0 THEN <<<<>>>> ELSE <<>>
    IN  lines \o blank
            \o [i \in 1..Len(d.signals) |-> SerializeSignal(d.signals[i])]

\* serialize(doc)
Serialize(d) == JoinLines(SerializeLines(d))

\* Date.prototype.toJSON: the ISO 8601 string of a time value, which names
\* the time value to the millisecond
ToISOString(t) == [iso |-> t]

\* new Date(isoString)
NewDate(s) == s.iso

\* JSON.stringify of a run: a property whose value is undefined is left out
StringifyRun(run) ==
    IF run.value = "undefined" THEN [duration |-> run.duration] ELSE run

\* serializeToJSON(doc) = JSON.stringify(doc, null, 2), as the JSON value the
\* text denotes: strings, finite numbers, booleans, arrays and objects are
\* written and read back as they are, a Date is written as its ISO string
SerializeToJSON(d) ==
    [d EXCEPT !.metadata.created = ToISOString(@),
              !.metadata.modified = ToISOString(@),
              !.signals = [i \in 1..Len(d.signals) |->
                              [d.signals[i] EXCEPT !.states =
                                  [k \in 1..Len(@) |-> StringifyRun(@[k])]]]]

\* Mutant: modified is read from the created string.
DeserializeFromJSONCreatedTwice(j) ==
    [j EXCEPT !.metadata.created = NewDate(j.metadata.created),
              !.metadata.modified = NewDate(j.metadata.created)]

\* deserializeFromJSON(json): JSON.parse, then the two dates are rebuilt
DeserializeFromJSON(j) ==
    [j EXCEPT !.metadata.created = NewDate(@),
              !.metadata.modified = NewDate(@)]

----------------------------------------------------------------------------
(* The single-page app (class WaveformApp): a text editor and a canvas
   over one list of signals. A signal is {name, description, states}, its
   states one of 'low', 'high', 'unknown', 'highz' per step. *)

\* characters of a state string in the editor
AppStateChars == {"0", "1", "X", "Z", "x", "z"}

\* this.stepWidth
StepWidth == 60

\* this.signalHeight
SignalHeight == 60

\* this.padding.top
PaddingTop == 40

\* this.padding.left
PaddingLeft == 150

\* this.zoom, at the value the constructor gives it
Zoom == 1

\* String.prototype.toUpperCase on a state character
ToUpperCase(c) == IF c = "x" THEN "X" ELSE IF c = "z" THEN "Z" ELSE c

\* the switch of parseText: a character of the state string to a state
CharToState(c) ==
    IF c = "0" THEN "low"
    ELSE IF c = "1" THEN "high"
    ELSE IF c = "X" THEN "unknown"
    ELSE IF c = "Z" THEN "highz"
    ELSE "low"

\* the switch of serializeSignals: a state to its character
StateToChar(state) ==
    IF state = "low" THEN "0"
    ELSE IF state = "high" THEN "1"
    ELSE IF state = "unknown" THEN "X"
    ELSE IF state = "highz" THEN "Z"
    ELSE "0"

\* /^([A-Za-z0-9_]+)\s*:\s*([01XZxz]+)(\s+"([^"]+)")?/ on a trimmed line.
\* The pattern is not anchored at the end: what follows the states, or the
\* description, is ignored. The optional group takes part only if a
\* non-empty run of characters other than '"' stands between two quotes.
MatchAppSignal(line) ==
    LET nameEnd   == SkipWhile(line, 1, WordChars)
        colon     == SkipWhile(line, nameEnd, WhiteSpace)
        statesAt  == SkipWhile(line, colon + 1, WhiteSpace)
        statesEnd == SkipWhile(line, statesAt, AppStateChars)
        quoteAt   == SkipWhile(line, statesEnd, WhiteSpace)
        closing   == {k \in (quoteAt + 1)..Len(line) : line[k] = "\""}
        closeAt   == CHOOSE k \in closing : \A m \in closing : k <= m
        head      == /\ nameEnd > 1
                     /\ colon <= Len(line)
                     /\ line[colon] = ":"
                     /\ statesEnd > statesAt
        described == /\ quoteAt > statesEnd
                     /\ quoteAt <= Len(line)
                     /\ line[quoteAt] = "\""
                     /\ closing # {}
                     /\ closeAt > quoteAt + 1
        base      == [matched   |-> TRUE,
                      name      |-> SubSeq(line, 1, nameEnd - 1),
                      statesStr |-> SubSeq(line, statesAt, statesEnd - 1)]
    IN  IF ~head THEN NoMatch
        ELSE IF described
             THEN SetField(base, "description",
                           SubSeq(line, quoteAt + 1, closeAt - 1))
             ELSE base

\* the body of parseText's loop for one line
AppParseLine(signals, line) ==
    LET trimmed == Trim(line)
        match   == MatchAppSignal(trimmed)
    IN  IF trimmed = <<>> \/ StartsWith(trimmed, "#") \/ StartsWith(trimmed, "@")
        THEN signals
        ELSE IF ~match.matched THEN signals
        ELSE Append(signals,
                    [name        |-> match.name,
                     description |-> IF Truthy(match, "description")
                                     THEN match.description ELSE <<>>,
                     states      |-> [k \in 1..Len(match.statesStr) |->
                                         CharToState(ToUpperCase(match.statesStr[k]))]])

RECURSIVE AppParseLines(_, _, _)
AppParseLines(lines, i, signals) ==
    IF i > Len(lines) THEN signals
    ELSE AppParseLines(lines, i + 1, AppParseLine(signals, lines[i]))

\* parseText(text)
AppParseText(t) == AppParseLines(Split(t), 1, <<>>)

\* Mutant: the description is not written.
AppSerializeSignalNoDescription(signal) ==
    signal.name \o <<":", " ">>
        \o [k \in 1..Len(signal.states) |-> StateToChar(signal.states[k])]

\* the line serializeSignals writes for one signal
AppSerializeSignal(signal) ==
    LET statesStr == [k \in 1..Len(signal.states) |-> StateToChar(signal.states[k])]
    IN  IF signal.description # <<>>
        THEN signal.name \o <<":", " ">> \o statesStr
                 \o <<" ", "\"">> \o signal.description \o <<"\"">>
        ELSE signal.name \o <<":", " ">> \o statesStr

\* serializeSignals()
AppSerializeSignals(signals) ==
    JoinLines([i \in 1..Len(signals) |-> AppSerializeSignal(signals[i])])

\* hitTest(x, y): the cell under a point of the canvas, NoHit for null.
\* Math.floor of a quotient by a positive divisor is \div.
HitTest(signals, x, y) ==
    LET scaledStepWidth == StepWidth * Zoom
        signalIndex     == (y - PaddingTop) \div SignalHeight
        stepIndex       == (x - PaddingLeft) \div scaledStepWidth
    IN  IF x < PaddingLeft THEN NoHit
        ELSE IF /\ signalIndex >= 0
                /\ signalIndex < Len(signals)
                /\ stepIndex >= 0
                /\ stepIndex < Len(signals[signalIndex + 1].states)
             THEN [signalIndex |-> signalIndex, stepIndex |-> stepIndex]
             ELSE NoHit

\* Mutant: a click switches between low and high only.
ToggleStateTwoWay(currentState) ==
    IF currentState = "low" THEN "high" ELSE "low"

\* the conditional chain of onCanvasClick
ToggleState(currentState) ==
    IF currentState = "low" THEN "high"
    ELSE IF currentState = "high" THEN "unknown"
    ELSE IF currentState = "unknown" THEN "highz"
    ELSE "low"

\* the example loadExample puts into the editor
ExampleLines ==
    <<
        <<"#", " ", "E", "x", "a", "m", "p", "l", "e", ":", " ", "S",
          "i", "m", "p", "l", "e", " ", "C", "P", "U", " ", "T", "i",
          "m", "i", "n", "g", " ", "D", "i", "a", "g", "r", "a", "m">>,
        <<"#", " ", "T", "h", "i", "s", " ", "d", "e", "m", "o", "n",
          "s", "t", "r", "a", "t", "e", "s", " ", "a", " ", "b", "a",
          "s", "i", "c", " ", "m", "e", "m", "o", "r", "y", " ", "r",
          "e", "a", "d", " ", "c", "y", "c", "l", "e">>,
        <<>>,
        <<"C", "L", "K", ":", " ", "0", "1", "0", "1", "0", "1", "0",
          "1", " ", "\"", "S", "y", "s", "t", "e", "m", " ", "C", "l",
          "o", "c", "k", "\"">>,
        <<"A", "D", "D", "R", ":", " ", "0", "0", "1", "1", "1", "1",
          "1", "1", " ", "\"", "A", "d", "d", "r", "e", "s", "s", " ",
          "B", "u", "s", "\"">>,
        <<"R", "D", ":", " ", "1", "1", "0", "0", "0", "0", "1", "1",
          " ", "\"", "R", "e", "a", "d", " ", "E", "n", "a", "b", "l",
          "e", "\"">>,
        <<"D", "A", "T", "A", ":", " ", "0", "0", "0", "0", "1", "1",
          "1", "1", " ", "\"", "D", "a", "t", "a", " ", "B", "u", "s",
          "\"">>,
        <<"R", "E", "A", "D", "Y", ":", " ", "1", "1", "1", "1", "0",
          "0", "0", "0", " ", "\"", "D", "e", "v", "i", "c", "e", " ",
          "R", "e", "a", "d", "y", "\"">>
    >>

Example == JoinLines(ExampleLines)

----------------------------------------------------------------------------
(* Inputs *)

\* lines a text is made of: comment, signal lines (plain, with description,
\* repeated name, indented), a signal line with a trailing comment, a line
\* without colon, directives (known, unknown, malformed)
Lines ==
    {<<" ", "#", " ", "c">>,
     <<"A", ":", " ", "0", "1">>,
     <<"B", ":", "0", "X", "X", "1", " ", "\"", "d", "\"">>,
     <<"A", ":", " ", "1", "1", "0">>,
     <<"A", ":", " ", "0", "1", " ", "#", " ", "c">>,
     <<"A", " ", "0", "1">>,
     <<"@", "t", "i", "t", "l", "e", ":", " ", "T">>,
     <<"@", "t", "i", "t", "l", "e", ":", " ", "U">>,
     <<"@", "u", "n", "i", "t", ":", " ", "n", "s">>,
     <<"@", "u", "n", "i", "t", ":", " ", "u", "s">>,
     <<"@", "d", "e", "s", "c", "r", "i", "p", "t", "i", "o", "n", ":", " ", "D">>,
     <<"@", "m", "a", "r", "k", "e", "r", ":", " ", "1", " ", "\"", "M", "\"">>,
     <<"@", "x">>}

Texts == {JoinLines(ls) : ls \in UNION {[1..n -> Lines] : n \in 0..MaxLines}}

\* lines typed into the editor of the app: signal lines (with lower-case
\* states and a description, with spaces around the name and text after the
\* states, with an empty pair of quotes), a directive, a line that is no
\* signal
AppLines ==
    {<<"b", "_", "1", ":", "x", "Z", " ", "\"", "d", " ", "e", "\"">>,
     <<" ", "A", " ", ":", "1", "z", " ", "#", "c">>,
     <<"C", ":", " ", "0", " ", "\"", "\"">>,
     <<"@", "t", "i", "t", "l", "e", ":", " ", "T">>,
     <<"A", " ", "0", "1">>}

AppTexts == {JoinLines(ls) : ls \in UNION {[1..n -> AppLines] : n \in 0..MaxAppLines}}

\* points of the canvas a click lands on: in the name column, above the
\* first row, in the first step of the first row, in the second step of the
\* second row
ClickPoints == {<<100, 40>>, <<150, 20>>, <<150, 40>>, <<215, 105>>}

\* lines of a text checked by validate before it is parsed: signal lines
\* (plain, with description), a '@marker' line of the documented shape and
\* one whose label has no quotes
MarkedLines ==
    {<<"A", ":", " ", "0", "1">>,
     <<"B", ":", " ", "1", " ", "\"", "d", "\"">>,
     <<"@", "m", "a", "r", "k", "e", "r", ":", " ", "1", " ", "\"", "M", "\"">>,
     <<"@", "m", "a", "r", "k", "e", "r", ":", " ", "2", " ", "M">>}

MarkedTexts == {JoinLines(ls) : ls \in UNION {[1..n -> MarkedLines] : n \in 0..MaxLines}}

StateStrings == UNION {[1..n -> StateChars] : n \in 0..MaxLen}

\* texts a document's life starts from
SeedTexts == {JoinLines(<<<<"A", ":", " ", "0", "1">>>>), JoinLines(<<<<"A", ":", " ", "0", "1">>, <<"B", ":", "0", "X", "X", "1", " ", "\"", "d", "\"">>>>)}

\* arguments of createSignal
SignalNames == {<<"A">>, <<"C">>}

SignalStrings == {<<"1">>, <<"0", "0", "1", "1">>}

\* the updates argument of updateSignal
SignalUpdates ==
    {[name |-> <<"C">>],
     [states |-> ParseSignalStates(<<"0", "0", "0">>)],
     [description |-> <<"d">>],
     [id |-> <<0, 0>>]}

\* the updates argument of updateMetadata
MetadataUpdates ==
    {[title |-> <<"T">>, description |-> <<"D">>],
     [title |-> <<>>],
     [created |-> MaxClock + 1]}

\* the updates argument of updateTimeConfig
TimeConfigUpdates ==
    {[unit |-> <<"n", "s">>, markers |-> <<[position |-> <<"1">>, label |-> <<"M">>]>>],
     [totalSteps |-> 4]}

\* lines of the texts that are parsed, serialized and parsed again:
\* directives, markers (small, with leading zeros, of 22 digits, without
\* quotes), signal lines
DocLines ==
    {<<"@", "t", "i", "t", "l", "e", ":", " ", "T">>,
     <<"@", "t", "i", "t", "l", "e", ":", " ", "U", "n", "t", "i", "t", "l", "e", "d", " ", "W", "a", "v", "e", "f", "o", "r", "m">>,
     <<"@", "u", "n", "i", "t", ":", " ", "n", "s">>,
     <<"@", "m", "a", "r", "k", "e", "r", ":", " ", "1", " ", "\"", "M", "\"">>,
     <<"@", "m", "a", "r", "k", "e", "r", ":", " ", "0", "0", "7", " ", "\"", "N", "\"">>,
     <<"@", "m", "a", "r", "k", "e", "r", ":", " ", "1", "0", "0", "0", "0", "0", "0", "0", "0", "0", "0", "0", "0", "0", "0", "0", "0", "0", "0", "0", "0", "0", " ", "\"", "M", "\"">>,
     <<"@", "m", "a", "r", "k", "e", "r", ":", " ", "1", " ", "M">>,
     <<"A", ":", " ", "0", "1">>,
     <<"B", ":", "0", "X", "X", "1", " ", "\"", "d", "\"">>}

DocTexts == {JoinLines(ls) : ls \in UNION {[1..n -> DocLines] : n \in 0..MaxLines}}

NoDoc == [version |-> "none"]

\* lines validate is applied to: comment, signal lines (a repeated name with
\* another length, a second name), a signal line with a trailing comment,
\* one with a character that is no state, one without colon, directives
\* (malformed and well-formed), a blank line, a name of 33 characters
CheckLines ==
    {<<" ", "#", " ", "c">>,
     <<"A", ":", " ", "0", "1">>,
     <<"A", ":", " ", "0", "1", "1", "0">>,
     <<"B", ":", " ", "0", "1">>,
     <<"B", ":", " ", "0", "1", "1", "0", " ", "#", " ", "c">>,
     <<"A", ":", " ", "0", "2">>,
     <<"A", " ", "0", "1">>,
     <<"@", "x">>,
     <<"@", "u", "n", "i", "t", ":", " ", "n", "s">>,
     <<" ">>,
     <<"N", "N", "N", "N", "N", "N", "N", "N", "N", "N", "N", "N", "N", "N", "N", "N", "N", "N", "N", "N", "N", "N", "N", "N", "N", "N", "N", "N", "N", "N", "N", "N", "N", ":", " ", "0", "1">>}

CheckTexts == {JoinLines(ls) : ls \in UNION {[1..n -> CheckLines] : n \in 0..MaxLines}}

NoReport == [valid |-> FALSE, errors |-> <<>>, warnings |-> <<>>]

----------------------------------------------------------------------------
(* Calls *)

\* states = parseSignalStates(stateString)
CallParseSignalStates ==
    /\ "parseSignalStates" \notin called
    /\ states' = ParseSignalStates(stateString)
    /\ called' = called \cup {"parseSignalStates"}
    /\ UNCHANGED <<text, doc, report, raised, counter, clock, ops,
                   stateString, serialized,
                   textVars, heapVars, jsonVars, appVars>>

\* serialized = serializeSignalStates(states)
CallSerializeSignalStates ==
    /\ "parseSignalStates" \in called
    /\ "serializeSignalStates" \notin called
    /\ IF SerializeRaises(states)
       THEN raised' = "TypeError" /\ UNCHANGED serialized
       ELSE serialized' = SerializeSignalStates(states) /\ UNCHANGED raised
    /\ called' = called \cup {"serializeSignalStates"}
    /\ UNCHANGED <<text, doc, report, counter, clock, ops, stateString, states,
                   textVars, heapVars, jsonVars, appVars>>

\* doc = parser.parse(text)
CallParse ==
    /\ called \cap {"parse", "createDocument"} = {}
    /\ LET r == Parse(text, clock, counter)
       IN  /\ counter' = r.counter
           /\ IF r.thrown
              THEN raised' = "TypeError" /\ UNCHANGED doc
              ELSE doc' = r.doc /\ UNCHANGED raised
    /\ called' = called \cup {"parse"}
    /\ UNCHANGED <<text, report, clock, ops, stateString, states, serialized,
                   textVars, heapVars, jsonVars, appVars>>

\* report = parser.validate(text)
CallValidate ==
    /\ "validate" \notin called
    /\ report' = Validate(text)
    /\ called' = called \cup {"validate"}
    /\ UNCHANGED <<text, doc, raised, counter, clock, ops,
                   stateString, states, serialized,
                   textVars, heapVars, jsonVars, appVars>>

\* doc = createDocument()
CallCreateDocument ==
    /\ called \cap {"parse", "createDocument"} = {}
    /\ doc' = CreateDocument(clock, counter)
    /\ counter' = counter + 1
    /\ called' = called \cup {"createDocument"}
    /\ UNCHANGED <<text, report, raised, clock, ops,
                   stateString, states, serialized,
                   textVars, heapVars, jsonVars, appVars>>

HasDoc == called \cap {"parse", "createDocument"} # {} /\ raised = "none"

\* the document is still being edited: it has not been written out
Editing == HasDoc /\ called \cap {"serialize", "serializeToJSON"} = {}

\* doc = addSignal(doc, createSignal(name, str))
CallAddSignal ==
    /\ Editing
    /\ ops < MaxOps
    /\ \E name \in SignalNames, str \in SignalStrings :
           doc' = AddSignal(doc, CreateSignal(name, str, clock, counter), clock)
    /\ counter' = counter + 1
    /\ ops' = ops + 1
    /\ called' = called \cup {"addSignal"}
    /\ UNCHANGED <<text, report, raised, clock, stateString, states, serialized,
                   textVars, heapVars, jsonVars, appVars>>

\* doc = updateSignal(doc, signalId, updates)
CallUpdateSignal ==
    /\ Editing
    /\ ops < MaxOps
    /\ \E i \in 1..Len(doc.signals), updates \in SignalUpdates :
           doc' = UpdateSignal(doc, doc.signals[i].id, updates, clock)
    /\ ops' = ops + 1
    /\ called' = called \cup {"updateSignal"}
    /\ UNCHANGED <<text, report, raised, counter, clock,
                   stateString, states, serialized,
                   textVars, heapVars, jsonVars, appVars>>

\* doc = removeSignal(doc, signalId)
CallRemoveSignal ==
    /\ Editing
    /\ ops < MaxOps
    /\ \E i \in 1..Len(doc.signals) :
           doc' = RemoveSignal(doc, doc.signals[i].id, clock)
    /\ ops' = ops + 1
    /\ called' = called \cup {"removeSignal"}
    /\ UNCHANGED <<text, report, raised, counter, clock,
                   stateString, states, serialized,
                   textVars, heapVars, jsonVars, appVars>>

\* doc = updateMetadata(doc, updates)
CallUpdateMetadata ==
    /\ Editing
    /\ ops < MaxOps
    /\ \E updates \in MetadataUpdates :
           doc' = UpdateMetadata(doc, updates, clock)
    /\ ops' = ops + 1
    /\ called' = called \cup {"updateMetadata"}
    /\ UNCHANGED <<text, report, raised, counter, clock,
                   stateString, states, serialized, textVars, heapVars,
                   jsonVars, appVars>>

\* doc = updateTimeConfig(doc, updates)
CallUpdateTimeConfig ==
    /\ Editing
    /\ ops < MaxOps
    /\ \E updates \in TimeConfigUpdates :
           doc' = UpdateTimeConfig(doc, updates, clock)
    /\ ops' = ops + 1
    /\ called' = called \cup {"updateTimeConfig"}
    /\ UNCHANGED <<text, report, raised, counter, clock,
                   stateString, states, serialized, textVars, heapVars,
                   jsonVars, appVars>>

\* output = serializer.serialize(doc)
CallSerialize ==
    /\ HasDoc
    /\ "serialize" \notin called
    /\ output' = Serialize(doc)
    /\ called' = called \cup {"serialize"}
    /\ UNCHANGED <<text, doc, report, raised, counter, clock, ops,
                   stateString, states, serialized, reparsed, reoutput,
                   heapVars, jsonVars, appVars>>

\* parser.parse in the text round trip: doc = parse(text) first and, once
\* doc has been serialized, reparsed = parse(output)
CallParseText ==
    /\ IF "parse" \in called
       THEN "serialize" \in called /\ "reparse" \notin called
       ELSE "createDocument" \notin called
    /\ LET again == "parse" \in called
           r == Parse(IF again THEN output ELSE text, clock, counter)
       IN  /\ counter' = r.counter
           /\ IF r.thrown
              THEN raised' = "TypeError" /\ UNCHANGED <<doc, reparsed>>
              ELSE /\ doc' = (IF again THEN doc ELSE r.doc)
                   /\ reparsed' = (IF again THEN r.doc ELSE reparsed)
                   /\ UNCHANGED raised
    /\ called' = called \cup {IF "parse" \in called THEN "reparse" ELSE "parse"}
    /\ UNCHANGED <<text, report, clock, ops,
                   stateString, states, serialized, output, reoutput,
                   heapVars, jsonVars, appVars>>

\* reoutput = serializer.serialize(reparsed)
CallReserialize ==
    /\ "reparse" \in called
    /\ raised = "none"
    /\ "reserialize" \notin called
    /\ reoutput' = Serialize(reparsed)
    /\ called' = called \cup {"reserialize"}
    /\ UNCHANGED <<text, doc, report, raised, counter, clock, ops,
                   stateString, states, serialized, output, reparsed,
                   heapVars, jsonVars, appVars>>

\* doc = parser.parse(text), with the objects it allocates
HeapParse ==
    /\ docRef = NoRef
    /\ called \cap {"parse", "createDocument"} = {}
    /\ LET r == Parse(text, clock, counter)
       IN  /\ ~r.thrown
           /\ counter' = r.counter
           /\ doc' = r.doc
           /\ heap' = StoreDocument(heap, r.doc)
    /\ docRef' = Len(heap')
    /\ called' = called \cup {"parse"}
    /\ UNCHANGED <<text, report, raised, clock, ops,
                   stateString, states, serialized, textVars,
                   jsonVars, appVars>>

\* doc = createDocument(), with the objects it allocates
HeapCreateDocument ==
    /\ docRef = NoRef
    /\ called \cap {"parse", "createDocument"} = {}
    /\ doc' = CreateDocument(clock, counter)
    /\ heap' = StoreDocument(heap, doc')
    /\ docRef' = Len(heap')
    /\ counter' = counter + 1
    /\ called' = called \cup {"createDocument"}
    /\ UNCHANGED <<text, report, raised, clock, ops,
                   stateString, states, serialized, textVars,
                   jsonVars, appVars>>

\* what every helper call on objects does besides its own allocation: the
\* result becomes the current document
HeapReturn(name) ==
    /\ docRef' = Len(heap')
    /\ doc' = Load(heap', docRef')
    /\ ops' = ops + 1
    /\ called' = called \cup {name}
    /\ UNCHANGED <<text, report, raised, clock,
                   stateString, states, serialized, textVars,
                   jsonVars, appVars>>

\* doc = addSignal(doc, createSignal(name, str))
HeapCallAddSignal ==
    /\ docRef # NoRef
    /\ ops < MaxHeapOps
    /\ \E name \in SignalNames, str \in SignalStrings :
           LET h == Append(heap, Object(CreateSignal(name, str, clock, counter)))
           IN  heap' = HeapAddSignal(h, docRef, Len(h), clock)
    /\ counter' = counter + 1
    /\ HeapReturn("addSignal")

\* doc = updateSignal(doc, signalId, updates)
HeapCallUpdateSignal ==
    /\ docRef # NoRef
    /\ ops < MaxHeapOps
    /\ \E i \in 1..Len(doc.signals), updates \in SignalUpdates :
           heap' = HeapUpdateSignal(heap, docRef, doc.signals[i].id, updates, clock)
    /\ HeapReturn("updateSignal")
    /\ UNCHANGED counter

\* doc = removeSignal(doc, signalId)
HeapCallRemoveSignal ==
    /\ docRef # NoRef
    /\ ops < MaxHeapOps
    /\ \E i \in 1..Len(doc.signals) :
           heap' = HeapRemoveSignal(heap, docRef, doc.signals[i].id, clock)
    /\ HeapReturn("removeSignal")
    /\ UNCHANGED counter

\* doc = updateMetadata(doc, updates)
HeapCallUpdateMetadata ==
    /\ docRef # NoRef
    /\ ops < MaxHeapOps
    /\ \E updates \in MetadataUpdates :
           heap' = HeapUpdateMetadata(heap, docRef, updates, clock)
    /\ HeapReturn("updateMetadata")
    /\ UNCHANGED counter

\* doc = updateTimeConfig(doc, updates)
HeapCallUpdateTimeConfig ==
    /\ docRef # NoRef
    /\ ops < MaxHeapOps
    /\ \E updates \in TimeConfigUpdates :
           heap' = HeapUpdateTimeConfig(heap, docRef, updates, clock)
    /\ HeapReturn("updateTimeConfig")
    /\ UNCHANGED counter

\* json = serializer.serializeToJSON(doc)
CallSerializeToJSON ==
    /\ HasDoc
    /\ "serializeToJSON" \notin called
    /\ json' = SerializeToJSON(doc)
    /\ called' = called \cup {"serializeToJSON"}
    /\ UNCHANGED <<text, doc, report, raised, counter, clock, ops,
                   stateString, states, serialized, textVars, heapVars,
                   restored, appVars>>

\* restored = serializer.deserializeFromJSON(json)
CallDeserializeFromJSON ==
    /\ "serializeToJSON" \in called
    /\ "deserializeFromJSON" \notin called
    /\ restored' = DeserializeFromJSON(json)
    /\ called' = called \cup {"deserializeFromJSON"}
    /\ UNCHANGED <<text, doc, report, raised, counter, clock, ops,
                   stateString, states, serialized, textVars, heapVars,
                   json, appVars>>

\* resetIdCounter()
CallResetIdCounter ==
    /\ counter' = 0
    /\ called' = called \cup {"resetIdCounter"}
    /\ UNCHANGED <<text, doc, report, raised, clock, ops,
                   stateString, states, serialized, textVars, heapVars,
                   jsonVars, appVars>>

\* time passes
Tick ==
    /\ clock < MaxClock
    /\ clock' = clock + 1
    /\ UNCHANGED <<text, doc, report, called, raised, counter, ops,
                   stateString, states, serialized,
                   textVars, heapVars, jsonVars, appVars>>

----------------------------------------------------------------------------
(* Handlers of the single-page app *)

libraryVars == <<text, doc, report, called, raised, counter, clock, ops,
                 stateString, states, serialized, textVars, heapVars, jsonVars>>

\* the user edits the text: the 'input' event runs onTextChange()
OnTextChange ==
    \E t \in AppTexts :
        /\ textEditor' = t
        /\ appSignals' = AppParseText(t)
        /\ UNCHANGED <<lastHit, clicks, libraryVars>>

\* onCanvasClick(e) with the click at (x, y) of the canvas
OnCanvasClick ==
    /\ clicks < MaxClicks
    /\ \E point \in ClickPoints :
        LET hit == HitTest(appSignals, point[1], point[2])
        IN  /\ lastHit' = hit
            /\ IF hit # NoHit
               THEN /\ appSignals' =
                          [appSignals EXCEPT
                              ![hit.signalIndex + 1].states[hit.stepIndex + 1] =
                                  ToggleState(@)]
                    /\ textEditor' = AppSerializeSignals(appSignals')
               ELSE UNCHANGED <<appSignals, textEditor>>
    /\ clicks' = clicks + 1
    /\ UNCHANGED libraryVars

\* loadExample()
LoadExample ==
    /\ textEditor' = Example
    /\ appSignals' = AppParseText(Example)
    /\ UNCHANGED <<lastHit, clicks, libraryVars>>

\* clearAll(): confirm() returns the user's answer
ClearAll ==
    \E confirmed \in BOOLEAN :
        /\ IF confirmed
           THEN textEditor' = <<>> /\ appSignals' = <<>>
           ELSE UNCHANGED <<textEditor, appSignals>>
        /\ UNCHANGED <<lastHit, clicks, libraryVars>>

----------------------------------------------------------------------------
(* Specifications *)

\* the single-page app has not been opened
NoApp ==
    /\ textEditor = <<>>
    /\ appSignals = <<>>
    /\ lastHit = NoHit
    /\ clicks = 0

\* no function of the library has been called
LibraryIdle ==
    /\ doc = NoDoc
    /\ report = NoReport
    /\ called = {}
    /\ raised = "none"
    /\ counter = 0
    /\ clock = 0
    /\ ops = 0
    /\ states = <<>>
    /\ serialized = <<>>
    /\ output = <<>>
    /\ reparsed = NoDoc
    /\ reoutput = <<>>
    /\ heap = <<>>
    /\ docRef = NoRef
    /\ json = NoDoc
    /\ restored = NoDoc

Idle == LibraryIdle /\ NoApp

\* the life of a document: parse or createDocument, then mutation helpers
Init == Idle /\ text \in SeedTexts /\ stateString = <<>>

Next ==
    \/ CallParse
    \/ CallCreateDocument
    \/ CallAddSignal
    \/ CallUpdateSignal
    \/ CallRemoveSignal
    \/ CallUpdateMetadata
    \/ CallUpdateTimeConfig
    \/ CallSerialize
    \/ Tick

Spec == Init /\ [][Next]_vars

\* the codec applied to every state string up to MaxLen characters
InitCodec == Idle /\ text = <<>> /\ stateString \in StateStrings

NextCodec == CallParseSignalStates \/ CallSerializeSignalStates

SpecCodec == InitCodec /\ [][NextCodec]_vars

\* parse and validate applied to every text of up to MaxLines lines
InitParse == Idle /\ text \in Texts /\ stateString = <<>>

NextParse == CallParse \/ CallValidate

SpecParse == InitParse /\ [][NextParse]_vars

\* the text round trip: parse, serialize, parse again, serialize again
InitText == Idle /\ text \in DocTexts /\ stateString = <<>>

NextText == CallParseText \/ CallSerialize \/ CallReserialize

SpecText == InitText /\ [][NextText]_vars

\* validate (and parse) applied to every text of up to MaxLines CheckLines
InitValidate == Idle /\ text \in CheckTexts /\ stateString = <<>>

SpecValidate == InitValidate /\ [][NextParse]_vars

\* validate and parse applied to texts with '@marker' lines
InitMarked == Idle /\ text \in MarkedTexts /\ stateString = <<>>

SpecMarked == InitMarked /\ [][NextParse]_vars

\* the life of a document as objects: parse or createDocument, then helpers
NextHeap ==
    \/ HeapParse
    \/ HeapCreateDocument
    \/ HeapCallAddSignal
    \/ HeapCallUpdateSignal
    \/ HeapCallRemoveSignal
    \/ HeapCallUpdateMetadata
    \/ HeapCallUpdateTimeConfig
    \/ Tick

SpecHeap == Init /\ [][NextHeap]_vars

\* ids handed out while the counter may be reset: a document is parsed or
\* created and signals are created and added
NextIds ==
    \/ CallParse
    \/ CallCreateDocument
    \/ CallAddSignal
    \/ CallResetIdCounter
    \/ Tick

SpecIds == Init /\ [][NextIds]_vars

\* the JSON round trip of a document that was parsed or created and edited
NextJson ==
    \/ CallParse
    \/ CallCreateDocument
    \/ CallAddSignal
    \/ CallUpdateMetadata
    \/ CallUpdateTimeConfig
    \/ CallSerializeToJSON
    \/ CallDeserializeFromJSON
    \/ Tick

SpecJson == Init /\ [][NextJson]_vars

\* the single-page app: the constructor has loaded the example; from then
\* on the user types, clicks on the canvas and presses the toolbar buttons
InitApp ==
    /\ LibraryIdle
    /\ text = <<>>
    /\ stateString = <<>>
    /\ textEditor = Example
    /\ appSignals = AppParseText(Example)
    /\ lastHit = NoHit
    /\ clicks = 0

NextApp == OnTextChange \/ OnCanvasClick \/ LoadExample \/ ClearAll

SpecApp == InitApp /\ [][NextApp]_vars

----------------------------------------------------------------------------
(* Vocabulary of the properties *)

\* the lines of the text, trimmed
TextLines == [i \in 1..Len(Split(text)) |-> Trim(Split(text)[i])]

\* a line that is neither blank, nor a comment, nor a directive or signal
\* line of the right shape
IsMalformed(line) ==
    /\ line # <<>>
    /\ ~StartsWith(line, "#")
    /\ IF StartsWith(line, "@") THEN ~MatchDirective(line).matched
       ELSE ~MatchSignal(line).matched

\* what a signal says: name, state string, description ("" when absent)
SignalView(s) ==
    [name |-> s.name,
     states |-> SerializeSignalStates(s.states),
     description |-> IF "description" \in DOMAIN s THEN s.description ELSE <<>>]

\* what a well-formed signal line says
LineView(line) ==
    LET m == MatchSignal(line)
    IN  [name |-> m.name,
         states |-> m.states,
         description |-> IF "description" \in DOMAIN m THEN m.description ELSE <<>>]

SignalViews(signals) == [i \in 1..Len(signals) |-> SignalView(signals[i])]

\* the well-formed signal lines among ls, in order
WellFormedViews(ls) ==
    LET wf == SelectSeq(ls, LAMBDA l : MatchSignal(l).matched)
    IN  [i \in 1..Len(wf) |-> LineView(wf[i])]

\* the line without its trailing comment: '#' to the end of the line, when
\* the '#' is outside quoted text
StripComment(line) ==
    LET hashes == {i \in 1..Len(line) :
                      /\ line[i] = "#"
                      /\ Cardinality({j \in 1..(i - 1) : line[j] = "\""}) % 2 = 0}
    IN  IF hashes = {} THEN line
        ELSE Trim(SubSeq(line, 1, (CHOOSE i \in hashes : \A j \in hashes : i <= j) - 1))

\* indices of the well-formed signal lines that carry a trailing comment
CommentedSignalLines ==
    {i \in 1..Len(TextLines) :
        /\ StripComment(TextLines[i]) # TextLines[i]
        /\ MatchSignal(StripComment(TextLines[i])).matched}

\* the values of the well-formed directives called name, in order
DirectiveValues(name) ==
    LET ds == SelectSeq(TextLines, LAMBDA l : /\ MatchDirective(l).matched
                                              /\ MatchDirective(l).directive = name)
    IN  [i \in 1..Len(ds) |-> MatchDirective(ds[i]).value]

DescriptionName == <<"d", "e", "s", "c", "r", "i", "p", "t", "i", "o", "n">>

NoAdjacentEqualRuns(runs) ==
    \A j \in 1..(Len(runs) - 1) : runs[j].value # runs[j + 1].value

----------------------------------------------------------------------------
(* Properties *)

\* C1: for every sequence s of state symbols, the empty one included,
\* serializeSignalStates(parseSignalStates(s)) returns exactly s.
\* Stated as the claim has it; the empty sequence violates it.
C1_CodecRoundTrip ==
    "serializeSignalStates" \in called =>
        raised = "none" /\ serialized = stateString

\* C2: parseSignalStates of the empty input returns an empty run list and
\* does not fail.  Stated as the claim has it; the code returns one run.
C2_EmptyInputEmptyRuns ==
    ("parseSignalStates" \in called /\ stateString = <<>>) =>
        raised = "none" /\ Len(states) = 0

\* C3: every signal of a document returned by parse has a run list in
\* which no two adjacent runs have the same value.
C3_CompressionInvariant ==
    "parse" \in called =>
        \A i \in 1..Len(doc.signals) : NoAdjacentEqualRuns(doc.signals[i].states)

\* C3 witness: parse returned a signal that has a run of several steps
\* followed by a run of another value
C3_Witness ==
    /\ "parse" \in called
    /\ \E i \in 1..Len(doc.signals) :
           \E j \in 1..(Len(doc.signals[i].states) - 1) :
               doc.signals[i].states[j + 1].duration >= 2

\* C4: the document returned by parse has totalSteps equal to the maximum
\* signal length, and to 0 when the text yields no signal.  Stated as the
\* claim has it; a text without signals keeps the default of createDocument.
C4_TotalStepsAfterParse ==
    "parse" \in called =>
        doc.timeConfig.totalSteps = CalculateTotalSteps(doc)

\* C5: after any sequence of addSignal, updateSignal and removeSignal calls
\* on a document from parse or createDocument, totalSteps equals the
\* maximum signal length of the current signals (0 without signals).
\* Stated as the claim has it; the helpers never recompute totalSteps.
C5_TotalStepsAfterMutation ==
    ops > 0 => doc.timeConfig.totalSteps = CalculateTotalSteps(doc)

\* C6: parse is total: for every text it returns a document and raises no
\* error.
C6_ParseIsTotal ==
    "parse" \in called => raised = "none" /\ doc.version = "1.0.0"

\* C6 witness: parse returned for a text with a malformed signal line and
\* a malformed directive
C6_Witness ==
    /\ "parse" \in called
    /\ raised = "none"
    /\ \E i, j \in 1..Len(TextLines) :
           /\ IsMalformed(TextLines[i]) /\ ~StartsWith(TextLines[i], "@")
           /\ IsMalformed(TextLines[j]) /\ StartsWith(TextLines[j], "@")

C8_TrailingCommentStripped ==
    {"parse", "validate"} \subseteq called =>
        /\ SignalViews(doc.signals)
              = WellFormedViews([i \in 1..Len(TextLines) |-> StripComment(TextLines[i])])
        /\ \A i \in CommentedSignalLines :
               \A k \in 1..Len(report.errors) : report.errors[k].line # i

\* C9: a line '@description: V' sets the description of the parsed
\* document to V, as '@title' sets the title.  Stated as the claim has it;
\* parse has no case for the directive.
C9_DescriptionDirective ==
    ("parse" \in called /\ Len(DirectiveValues(DescriptionName)) > 0) =>
        /\ "description" \in DOMAIN doc.metadata
        /\ doc.metadata.description
              = DirectiveValues(DescriptionName)[Len(DirectiveValues(DescriptionName))]

\* C10: the title of the parsed document is the value of the last
\* well-formed '@title' directive, "Untitled Waveform" without one; the
\* unit is the value of the last well-formed '@unit' directive.
C10_LastDirectiveWins ==
    "parse" \in called =>
        LET titles == DirectiveValues(TitleName)
            units == DirectiveValues(UnitName)
        IN  /\ doc.metadata.title
                  = IF Len(titles) = 0 THEN UntitledWaveform ELSE titles[Len(titles)]
            /\ Len(units) > 0 =>
                  /\ "unit" \in DOMAIN doc.timeConfig
                  /\ doc.timeConfig.unit = units[Len(units)]

\* C10 witness: parse returned for a text with two '@title' directives of
\* different values, and the document has the second value
C10_Witness ==
    /\ "parse" \in called
    /\ LET titles == DirectiveValues(TitleName)
       IN  /\ Len(titles) = 2
           /\ titles[1] # titles[2]
           /\ doc.metadata.title = titles[2]

\* C11 vocabulary: the markers of a document, none when the property is absent
MarkerList(d) ==
    IF "markers" \in DOMAIN d.timeConfig THEN d.timeConfig.markers ELSE <<>>

\* the markers that the well-formed '@marker' lines of the text state
ExpectedMarkers ==
    LET wf == SelectSeq(DirectiveValues(MarkerName),
                        LAMBDA v : MatchMarker(v).matched)
    IN  [i \in 1..Len(wf) |->
            [position |-> ParseInt(MatchMarker(wf[i]).pos),
             label |-> MatchMarker(wf[i]).label]]

\* C11: the marker list of parse(text) has one TimeMarker per well-formed
\* '@marker' line, in order of appearance, equal positions not deduplicated.
C11_MarkersInOrder ==
    "parse" \in called => MarkerList(doc) = ExpectedMarkers

\* C11 witness: parse returned two markers of the same position for a text
\* that also has a '@marker' line of the wrong shape
C11_Witness ==
    /\ "parse" \in called
    /\ Len(MarkerList(doc)) = 2
    /\ MarkerList(doc)[1].position = MarkerList(doc)[2].position
    /\ Len(DirectiveValues(MarkerName)) = 3

\* the value of an optional string property, "" when it is absent
FieldOr(r, k) == IF k \in DOMAIN r THEN r[k] ELSE <<>>

\* C12: for every document d returned by parse, parse(serialize(d)) has the
\* same signal names, state strings and descriptions, the same title, unit
\* and markers, and serializes to the same text.  Stated as the claim has
\* it; a marker position of 10^21 or more is written in exponent notation.
C12_TextRoundTrip ==
    "reserialize" \in called =>
        /\ SignalViews(reparsed.signals) = SignalViews(doc.signals)
        /\ reparsed.metadata.title = doc.metadata.title
        /\ FieldOr(reparsed.timeConfig, "unit") = FieldOr(doc.timeConfig, "unit")
        /\ MarkerList(reparsed) = MarkerList(doc)
        /\ reoutput = output

\* '@name: value'
DirectiveLine(name, value) == <<"@">> \o name \o <<":", " ">> \o value

\* the lines the claim lets serialize emit for d: title, description and
\* unit when they are non-empty (the title also other than the default),
\* the markers, one blank line if any of these, the signals
ExpectedLines(d) ==
    LET title == FieldOr(d.metadata, "title")
        description == FieldOr(d.metadata, "description")
        unit == FieldOr(d.timeConfig, "unit")
        meta == (IF title # <<>> /\ title # UntitledWaveform
                 THEN <<DirectiveLine(TitleName, title)>> ELSE <<>>)
                \o (IF description # <<>>
                    THEN <<DirectiveLine(DescriptionName, description)>> ELSE <<>>)
                \o (IF unit # <<>>
                    THEN <<DirectiveLine(UnitName, unit)>> ELSE <<>>)
                \o [i \in 1..Len(MarkerList(d)) |->
                       DirectiveLine(MarkerName,
                           NumberToString(MarkerList(d)[i].position)
                               \o <<" ", "\"">> \o MarkerList(d)[i].label \o <<"\"">>)]
    IN  meta \o (IF Len(meta) > 0 THEN <<<<>>>> ELSE <<>>)
             \o [i \in 1..Len(d.signals) |->
                    LET v == SignalView(d.signals[i])
                    IN  v.name \o <<":", " ">> \o v.states
                            \o (IF v.description # <<>>
                                THEN <<" ", "\"">> \o v.description \o <<"\"">>
                                ELSE <<>>)]

\* C13: serialize emits @title (only if other than "Untitled Waveform"),
\* @description and @unit (only if present), one @marker per marker in
\* list order, then exactly one blank line iff one of those lines was
\* emitted, then one line per signal in document order.
C13_SerializeOrder ==
    "serialize" \in called => output = JoinLines(ExpectedLines(doc))

\* C13 witness: a document with title, description, unit, a marker and a
\* signal has been serialized
C13_Witness ==
    /\ "serialize" \in called
    /\ FieldOr(doc.metadata, "description") # <<>>
    /\ doc.metadata.title \notin {<<>>, UntitledWaveform}
    /\ FieldOr(doc.timeConfig, "unit") # <<>>
    /\ Len(MarkerList(doc)) > 0
    /\ Len(doc.signals) > 0

\* C14: validate returns valid = true if and only if its error list is
\* empty; warnings never change valid.
C14_ValidIffNoErrors ==
    "validate" \in called => (report.valid <=> report.errors = <<>>)

\* C14 witness: validate returned valid with two warnings
C14_Witness ==
    /\ "validate" \in called
    /\ report.valid
    /\ Len(report.warnings) = 2

\* the 1-indexed positions of the malformed lines of the text
MalformedLineNumbers == {i \in 1..Len(TextLines) : IsMalformed(TextLines[i])}

HasBadStateField(line) ==
    LET n == Len(line)
        e == SkipWhile(line, 2, WordChars)
        a == SkipWhile(line, e, WhiteSpace)
        b == SkipWhile(line, a + 1, WhiteSpace)
        c == SkipWhile(line, b, WordChars)
    IN  /\ n >= 1 /\ line[1] \in Letters \cup {"_"}
        /\ a <= n /\ line[a] = ":"
        /\ c > b /\ c = n + 1
        /\ \E j \in b..n : line[j] \notin StateChars

\* C16: for a line NAME: STATES with a well-formed name and a state field
\* with a character outside {0,1,X,Z}, validate reports an error with code
\* INVALID_STATE.  Stated as the claim has it; the code reports
\* INVALID_SIGNAL for such a line.
C16_InvalidStateReported ==
    "validate" \in called =>
        \A i \in 1..Len(TextLines) :
            HasBadStateField(TextLines[i]) =>
                \E k \in 1..Len(report.errors) :
                    /\ report.errors[k].line = i
                    /\ report.errors[k].code = "INVALID_STATE"

\* the positions of the well-formed signal lines of the text
SignalLineNumbers == {i \in 1..Len(TextLines) : MatchSignal(TextLines[i]).matched}

\* C17: when a signal name appears on two or more well-formed signal lines,
\* validate reports an error with code DUPLICATE_NAME and valid is false.
\* Stated as the claim has it; validate has no such check.
C17_DuplicateNameReported ==
    "validate" \in called =>
        ((\E i, j \in SignalLineNumbers :
              i < j /\ MatchSignal(TextLines[i]).name = MatchSignal(TextLines[j]).name)
         => /\ \E k \in 1..Len(report.errors) : report.errors[k].code = "DUPLICATE_NAME"
            /\ ~report.valid)

\* the warnings of validate with code INCONSISTENT_LENGTHS
LengthWarnings ==
    SelectSeq(report.warnings, LAMBDA w : w.code = "INCONSISTENT_LENGTHS")

\* C18: validate emits the INCONSISTENT_LENGTHS warning exactly once, at
\* line 0, if and only if the well-formed signal lines do not all have the
\* same number of state characters; lines sharing a name count, malformed
\* lines do not.  Stated as the claim has it.
C18_InconsistentLengths ==
    "validate" \in called =>
        /\ Len(LengthWarnings) =
               IF \E i, j \in SignalLineNumbers :
                      Len(MatchSignal(TextLines[i]).states)
                          # Len(MatchSignal(TextLines[j]).states)
               THEN 1 ELSE 0
        /\ \A k \in 1..Len(LengthWarnings) : LengthWarnings[k].line = 0

\* C20: along any sequence of mutation-helper calls, with a non-decreasing
\* clock and any arguments the helpers accept, metadata.modified never
\* decreases from one resulting document to the next and is always greater
\* than or equal to metadata.created.  Stated as the claim has it;
\* updateMetadata lets the caller's updates replace created.
C20_ModifiedMonotone ==
    [][(HasDoc /\ ops' > ops) =>
           /\ doc'.metadata.modified >= doc.metadata.modified
           /\ doc'.metadata.modified >= doc'.metadata.created]_vars

\* C19: addSignal, updateSignal, removeSignal, updateMetadata and
\* updateTimeConfig return a new document and leave every field of the
\* document passed in (signal list, each signal, metadata, timeConfig)
\* unchanged: no object that existed before the call is written.
C19_HelpersLeaveInputUnchanged ==
    [][(docRef # NoRef /\ ops' > ops) =>
           /\ docRef' \notin 1..Len(heap)
           /\ Load(heap', docRef) = Load(heap, docRef)
           /\ \A r \in 1..Len(heap) : heap'[r] = heap[r]]_vars

\* C19 witness: after helper calls the heap still holds an earlier document
\* whose signals, metadata and timeConfig differ from the current one's
C19_Witness ==
    /\ docRef # NoRef
    /\ ops >= 2
    /\ \E r \in 1..Len(heap) :
           /\ r # docRef
           /\ heap[r].kind = "object"
           /\ DOMAIN heap[r].fields = DOMAIN heap[docRef].fields
           /\ Load(heap, r).signals # doc.signals
           /\ Load(heap, r).metadata # doc.metadata
           /\ Load(heap, r).timeConfig # doc.timeConfig

\* C21: metadata.created is set once: no mutation-helper call, whatever its
\* arguments, returns a document whose created timestamp differs from that
\* of the document passed in.  Stated as the claim has it.
C21_CreatedSetOnce ==
    [][(HasDoc /\ ops' > ops) =>
           doc'.metadata.created = doc.metadata.created]_vars

\* C22: for every updateSignal(doc, signalId, updates) call, whatever
\* updates contains, the signal at each position of the result has the id
\* of the signal at that position of doc.  Stated as the claim has it.
C22_SignalIdImmutable ==
    [][CallUpdateSignal =>
           /\ Len(doc'.signals) = Len(doc.signals)
           /\ \A i \in 1..Len(doc.signals) :
                  doc'.signals[i].id = doc.signals[i].id]_vars

\* C23: no document returned by parse, addSignal or updateSignal has two
\* signals of the same name.  Stated as the claim has it.
C23_SignalNamesUnique ==
    HasDoc =>
        \A i, j \in 1..Len(doc.signals) :
            doc.signals[i].name = doc.signals[j].name => i = j

\* C24: parse, validate, serialize and the mutation helpers leave all state
\* outside their arguments and result unchanged, the module-level counter
\* of utils/id.ts included.  Stated as the claim has it.
C24_NoSharedState ==
    [][counter' = counter]_vars

\* the ids of the document and of its signals, in order
IdsOf(d) == <<d.id>> \o [i \in 1..Len(d.signals) |-> d.signals[i].id]

\* C25: no two generateId calls return the same id, resetIdCounter calls in
\* between included: the document and the signals created have pairwise
\* distinct ids.  Stated as the claim has it.
C25_IdsUnique ==
    HasDoc =>
        \A i, j \in 1..Len(IdsOf(doc)) : IdsOf(doc)[i] = IdsOf(doc)[j] => i = j

CycleNext ==
    [state \in {"low", "high", "unknown", "highz"} |->
        CASE state = "low" -> "high"
          [] state = "high" -> "unknown"
          [] state = "unknown" -> "highz"
          [] state = "highz" -> "low"]

\* C27: a click that hits a cell advances that cell one step along the cycle
\* low -> high -> unknown -> highz -> low and leaves every other cell, every
\* name and every description as it was; four steps of the click's change
\* lead back to the state the cell had.
C27_ClickCyclesCell ==
    [][(OnCanvasClick /\ lastHit' # NoHit) =>
          LET i == lastHit'.signalIndex + 1
              j == lastHit'.stepIndex + 1
              was == appSignals[i].states[j]
          IN  /\ Len(appSignals') = Len(appSignals)
              /\ \A p \in 1..Len(appSignals) :
                    /\ appSignals'[p].name = appSignals[p].name
                    /\ appSignals'[p].description = appSignals[p].description
                    /\ Len(appSignals'[p].states) = Len(appSignals[p].states)
                    /\ \A q \in 1..Len(appSignals[p].states) :
                          appSignals'[p].states[q] =
                              IF p = i /\ q = j
                              THEN CycleNext[appSignals[p].states[q]]
                              ELSE appSignals[p].states[q]
              /\ ToggleState(ToggleState(ToggleState(ToggleState(was)))) = was
      ]_vars

\* C27 witness: four hitting clicks on one cell of the example have led back
\* to the example's signals, the editor holding their serialized text
C27_Witness ==
    /\ lastHit # NoHit
    /\ clicks >= 4
    /\ appSignals = AppParseText(Example)
    /\ textEditor = AppSerializeSignals(appSignals)

\* C28: parseText of the editor's text is the app's list of signals, after
\* every text change, click and clear.
C28_TextAndSignalsInSync ==
    AppParseText(textEditor) = appSignals

\* C28 witness: a hitting click has rewritten the editor's text from signals
\* of which one has a description and one a step in a state other than low
\* and high
C28_Witness ==
    /\ lastHit # NoHit
    /\ textEditor \notin AppTexts \cup {Example}
    /\ \E i \in 1..Len(appSignals) : appSignals[i].description # <<>>
    /\ \E i \in 1..Len(appSignals) :
          \E k \in 1..Len(appSignals[i].states) :
              appSignals[i].states[k] \in {"unknown", "highz"}

\* C29: when validate(text) reports no errors, parse(text) has a signal for
\* every signal line of the text and a marker for every '@marker' line.
\* Stated as the claim has it; validate accepts any '@name: value' line,
\* parse keeps a marker only if its value is a number and a quoted label.
C29_ParseLosesNothing ==
    ({"parse", "validate"} \subseteq called /\ report.errors = <<>>) =>
        /\ HasDoc
        /\ Len(doc.signals) = Cardinality(SignalLineNumbers)
        /\ \A i \in SignalLineNumbers :
              \E k \in 1..Len(doc.signals) :
                  doc.signals[k].name = MatchSignal(TextLines[i]).name
        /\ Len(MarkerList(doc)) = Len(DirectiveValues(MarkerName))

\* C30: for a non-empty state string s over {0,1,X,Z}, every run of
\* parseSignalStates(s) has a duration of at least 1 and the durations add
\* up to the length of s.
C30_DurationsSumToLength ==
    ("parseSignalStates" \in called /\ stateString # <<>>) =>
        /\ \A k \in 1..Len(states) : states[k].duration >= 1
        /\ SumDurations(states) = Len(stateString)

\* C30 witness: parseSignalStates returned two runs, one of them longer
\* than one step
C30_Witness ==
    /\ "parseSignalStates" \in called
    /\ Len(states) = 2
    /\ \E k \in 1..2 : states[k].duration >= 2

====
